---- MODULE Spec2Model ----
(* Model of goether: the transaction-option resolver and fee helpers of     *)
(* src/wallet.go (TxOpts, Wallet.InitTxOpts, GetNonce, GetPendingNonce),    *)
(* message signing and recovery (src/signer.go, Ecrecover of                *)
(* src/contract.go), the Contract's decoders (DecodeData, DecodeEvent,      *)
(* DecodeFromMethod), Wallet.SendTx / SendLegacyTx with the node they talk  *)
(* to, and two calls of InitTxOpts running at once.  Each part has its own  *)
(* variables and its own specification: Spec, SpecSig, SpecAbi, SpecSend,   *)
(* SpecConc.                                                                *)
(*                                                                         *)
(* Pointers.  A *int field of TxOpts is modelled as a set: {} is nil and   *)
(* {v} points to the int v (nothing in the code writes through a *int).    *)
(* A *big.Int field is a reference into the heap `big` of big.Int values,  *)
(* "nil" being the nil pointer, so that the aliasing made by               *)
(* `opts.GasTipCap = opts.GasPrice` and a write through a shared big.Int    *)
(* are both visible.  big.Int is arbitrary precision: no wrap-around.      *)
EXTENDS Integers, Sequences, FiniteSets, TLC

\* ---------------------------------------------------------------- bounds
MaxCount == 2    \* transaction counts of the node and caller nonces: 0..MaxCount
MaxGas == 2      \* gas limits (caller-given or estimated): 1..MaxGas
MaxPrice == 2    \* gas price / tip cap / fee cap values: 1..MaxPrice

NonceVals == 0..MaxCount
GasVals == 1..MaxGas
PriceVals == 1..MaxPrice

\* ------------------------------------------------------------- data model
\* The big.Int cells that can exist: one per *big.Int field a caller fills in
\* ("cp", "ct", "cf") and the local variable gasPrice of InitTxOpts ("lp").
Cells == {"cp", "ct", "cf", "lp"}
BigRefs == Cells \cup {"nil"}

\* The TxOpts records that can exist: the caller's own and the one
\* InitTxOpts allocates when it is handed nil.
RecIds == {"caller", "fresh"}

\* What a caller can put in a field: nothing, or a value.
Opt(S) == {{}} \cup {{v} : v \in S}

\* &TxOpts{}
EmptyOpts == [Nonce |-> {}, GasLimit |-> {}, GasPrice |-> "nil",
              GasTipCap |-> "nil", GasFeeCap |-> "nil"]

Deref(p) == CHOOSE v \in p : TRUE

\* The wallet: Address is signer.Address, fixed at construction.
Address == "w"

VARIABLES
    chain,    \* node: transaction counts of the wallet's account, per block tag
    recs,     \* heap of TxOpts records
    big,      \* heap of big.Int values
    held,     \* the record the caller holds ("nil": none)
    pc,       \* position of the InitTxOpts call in flight
    opts,     \* InitTxOpts: the parameter/local opts
    entry,    \* what InitTxOpts was called with (argument and field values)
    queries,  \* RPC queries issued by the call, in order
    ret,      \* what InitTxOpts returned
    feeRet    \* the last GetOldFee / GetNewFee call and its result

\* The signing side (src/signer.go, Ecrecover of src/contract.go).
VARIABLES
    signer,   \* the Signer built by NewSigner: its key and Address
    sigRet,   \* the last SignMsg / SignTypedData call and what it returned
    recRet    \* the last Ecrecover call and what it returned

\* The ABI codec (Contract of src/contract.go).
VARIABLES
    abiRet    \* the last Decode* call of the Contract and what it returned

\* Sending (Wallet.SendTx / Wallet.SendLegacyTx) and the node's pool.
VARIABLES
    send,     \* the SendTx / SendLegacyTx call in flight or last returned
    last,     \* the call before it, when that one succeeded
    pool      \* node: the pooled transaction of the wallet's account per nonce

\* Two calls of InitTxOpts running at once on one wallet.
VARIABLES
    wallet,       \* the Wallet's fields: Address, ChainID, the Signer's key
    crecs,        \* heap of the TxOpts records the two calls can reach
    cbig,         \* heap of big.Int values
    call,         \* per call: its position, its argument, its opts, what it
                  \* returned
    writer,       \* per record and field: the call that wrote it last (0: none)
    observed,     \* <<reader, field, writer>>: a call read a field the other
                  \* call had written and was not done resolving
    overwritten   \* <<writer, field, earlier>>: a call wrote a field the other
                  \* call had written

coreVars == <<chain, recs, big, held, pc, opts, entry, queries, ret, feeRet>>
sigVars == <<signer, sigRet, recRet>>

\* What the resolver and the fee helpers leave alone.
sendVars == <<send, last, pool>>
\* Construction (NewWallet).
VARIABLES
    nwRet         \* the last NewWallet call and what it returned

concVars == <<wallet, crecs, cbig, call, writer, observed, overwritten>>
ext == <<sigVars, abiRet, sendVars, concVars, nwRet>>

\* What the signing calls and the decoding calls leave alone.
notSig == <<coreVars, abiRet, sendVars, concVars, nwRet>>
notAbi == <<coreVars, sigVars, sendVars, concVars, nwRet>>
notSend == <<sigVars, abiRet, concVars, nwRet>>
notConc == <<coreVars, sigVars, abiRet, sendVars, nwRet>>

vars == <<coreVars, ext>>

\* The value a *big.Int points to, as a set like a *int.
BigVal(heap, p) == IF p = "nil" THEN {} ELSE {heap[p]}

\* The field values of a record, pointers followed.
View(heap, t) == [Nonce |-> t.Nonce, GasLimit |-> t.GasLimit,
                  GasPrice |-> BigVal(heap, t.GasPrice),
                  GasTipCap |-> BigVal(heap, t.GasTipCap),
                  GasFeeCap |-> BigVal(heap, t.GasFeeCap)]

NoView == View([c \in Cells |-> 0], EmptyOpts)
NoEntry == [opts |-> "nil", rec |-> NoView]
NoRet == [opts |-> "nil", err |-> FALSE]
NoFee == [op |-> "none", rec |-> "nil", fee |-> {}, err |-> FALSE,
          before |-> NoView, heapBefore |-> [c \in Cells |-> 0]]

\* The resolver side after construction: no call made, no record built.
InitCore ==
    /\ chain = [latest |-> 0, pending |-> 0]
    /\ recs = [r \in RecIds |-> EmptyOpts]
    /\ big = [c \in Cells |-> 0]
    /\ held = "nil"
    /\ pc = "idle"
    /\ opts = "nil"
    /\ entry = NoEntry
    /\ queries = <<>>
    /\ ret = NoRet
    /\ feeRet = NoFee

\* ------------------------------------------------------------ environment
\* The node: a transaction of the wallet's account enters the pool ...
NodePending ==
    /\ chain.pending < MaxCount
    /\ chain' = [chain EXCEPT !.pending = @ + 1]
    /\ UNCHANGED <<recs, big, held, pc, opts, entry, queries, ret, feeRet>>
    /\ UNCHANGED ext

\* ... or a pooled one is mined.
NodeMine ==
    /\ chain.latest < chain.pending
    /\ chain' = [chain EXCEPT !.latest = @ + 1]
    /\ UNCHANGED <<recs, big, held, pc, opts, entry, queries, ret, feeRet>>
    /\ UNCHANGED ext

\* The caller is done with the last call and lets go of the record it holds:
\* the effect on the resolver's state.
Reset ==
    /\ pc \in {"idle", "done"}
    /\ held # "nil" \/ pc = "done"
    /\ recs' = [r \in RecIds |-> EmptyOpts]
    /\ big' = [c \in Cells |-> 0]
    /\ held' = "nil"
    /\ pc' = "idle"
    /\ opts' = "nil"
    /\ entry' = NoEntry
    /\ queries' = <<>>
    /\ ret' = NoRet
    /\ feeRet' = NoFee
    /\ UNCHANGED chain

Forget == Reset /\ UNCHANGED ext

\* The caller builds a TxOpts literal with any subset of the fields set.
MakeOpts(n, g, p, t, f) ==
    /\ pc = "idle"
    /\ held = "nil"
    /\ recs' = [r \in RecIds |->
                 IF r = "caller"
                 THEN [Nonce |-> n, GasLimit |-> g,
                       GasPrice |-> IF p = {} THEN "nil" ELSE "cp",
                       GasTipCap |-> IF t = {} THEN "nil" ELSE "ct",
                       GasFeeCap |-> IF f = {} THEN "nil" ELSE "cf"]
                 ELSE EmptyOpts]
    /\ big' = [c \in Cells |->
                 IF c = "cp" /\ p # {} THEN Deref(p)
                 ELSE IF c = "ct" /\ t # {} THEN Deref(t)
                 ELSE IF c = "cf" /\ f # {} THEN Deref(f)
                 ELSE 0]
    /\ held' = "caller"
    /\ pc' = "idle"
    /\ opts' = "nil"
    /\ entry' = NoEntry
    /\ queries' = <<>>
    /\ ret' = NoRet
    /\ feeRet' = NoFee
    /\ UNCHANGED chain
    /\ UNCHANGED ext


\* ------------------------------------------------------------ RPC client
\* Wallet.GetAddress
GetAddress == Address

\* Wallet.GetNonce: the request it sends.
GetNonce == [m |-> "eth_getTransactionCount", addr |-> GetAddress, tag |-> "latest"]

\* Faulty variant: the confirmed count is asked for.
MutGetPendingNonce == [m |-> "eth_getTransactionCount", addr |-> GetAddress, tag |-> "latest"]

\* Wallet.GetPendingNonce: the request it sends.
GetPendingNonce == [m |-> "eth_getTransactionCount", addr |-> GetAddress, tag |-> "pending"]

\* The requests of Client.EthEstimateGas (From is w.Address) and Client.EthGasPrice.
EstimateGasReq == [m |-> "eth_estimateGas", addr |-> Address, tag |-> ""]
GasPriceReq == [m |-> "eth_gasPrice", addr |-> "", tag |-> ""]

\* What the node answers to a successful query: the transaction count of the
\* account under the block tag asked for (accounts other than the wallet's
\* have sent nothing), any estimate, any price.
Answers(req) ==
    IF req.m = "eth_getTransactionCount"
    THEN {IF req.addr = Address THEN chain[req.tag] ELSE 0}
    ELSE IF req.m = "eth_estimateGas" THEN GasVals
    ELSE PriceVals

\* One entry of the query log: the request, whether it succeeded, and the
\* value returned (the zero value next to an error).
Logged(req, ok, val) ==
    [m |-> req.m, addr |-> req.addr, tag |-> req.tag, ok |-> ok, val |-> val]

\* ------------------------------------------------------------ InitTxOpts
\* Faulty variant: the resolver always works on a record of its own.
MutInitOpts(o) == "fresh"

\* if opts == nil { opts = &TxOpts{} }
InitOpts(o) == IF o = "nil" THEN "fresh" ELSE o

\* Faulty variants of the guards: the nonce is always queried, the gas limit
\* is always estimated, the caps are defaulted only when both are unset.
MutNonceUnset(t) == TRUE
MutGasLimitUnset(t) == TRUE
MutCapsUnset(t) == t.GasTipCap = "nil" /\ t.GasFeeCap = "nil"

\* The four guards of InitTxOpts.
NonceUnset(t) == t.Nonce = {}
GasLimitUnset(t) == t.GasLimit = {}
GasPriceUnset(t) == t.GasPrice = "nil"
CapsUnset(t) == t.GasTipCap = "nil" \/ t.GasFeeCap = "nil"

\* Faulty variant: only the tip cap is defaulted.
MutSetCaps(t) == [t EXCEPT !.GasTipCap = t.GasPrice]

\* opts.GasTipCap = opts.GasPrice; opts.GasFeeCap = opts.GasPrice
SetCaps(t) == [t EXCEPT !.GasTipCap = t.GasPrice, !.GasFeeCap = t.GasPrice]

\* Faulty variant: the error of a query is dropped.
MutAfterQuery(ok, next) == next

\* if err != nil { return nil, err }: where the call goes after a query.
AfterQuery(ok, next) == IF ok THEN next ELSE "done"

\* Entry of InitTxOpts with the argument o: nil, or the record the caller holds.
\* A caller that passes nil has let go of whatever record it held.  This is
\* the effect on the resolver's own state, whoever the caller is.
Enter(o) ==
    /\ pc \in {"idle", "done"}
    /\ o \in {"nil", held}
    /\ opts' = InitOpts(o)
    /\ recs' = IF o = "nil" THEN [r \in RecIds |-> EmptyOpts] ELSE recs
    /\ big' = IF o = "nil" THEN [c \in Cells |-> 0] ELSE big
    /\ entry' = [opts |-> o,
                 rec |-> IF o = "nil" THEN NoView ELSE View(big, recs[o])]
    /\ held' = o
    /\ queries' = <<>>
    /\ ret' = NoRet
    /\ feeRet' = NoFee
    /\ pc' = "nonce"
    /\ UNCHANGED chain

\* A call of InitTxOpts by the caller itself.
Begin(o) == Enter(o) /\ UNCHANGED ext

\* A query stage: the request is sent, the node answers val or the query
\* fails; on failure the call returns (nil, err).
Query(req, ok, val, next) ==
    /\ queries' = Append(queries, Logged(req, ok, IF ok THEN val ELSE 0))
    /\ pc' = AfterQuery(ok, next)
    /\ ret' = IF pc' = "done" THEN [opts |-> "nil", err |-> TRUE] ELSE ret

\* if opts.Nonce == nil { nonce, err = w.GetPendingNonce(); ...; opts.Nonce = &nonce }
StepNonce ==
    /\ pc = "nonce"
    /\ IF NonceUnset(recs[opts])
       THEN \E ok \in BOOLEAN : \E val \in Answers(GetPendingNonce) :
              /\ Query(GetPendingNonce, ok, val, "gasLimit")
              /\ recs' = IF pc' = "done" THEN recs
                         ELSE [recs EXCEPT ![opts].Nonce = {IF ok THEN val ELSE 0}]
       ELSE /\ pc' = "gasLimit"
            /\ UNCHANGED <<queries, ret, recs>>
    /\ UNCHANGED <<chain, big, held, opts, entry, feeRet>>
    /\ UNCHANGED ext

\* if opts.GasLimit == nil { gasLimit, err = w.Client.EthEstimateGas(ethrpcTx); ... }
StepGasLimit ==
    /\ pc = "gasLimit"
    /\ IF GasLimitUnset(recs[opts])
       THEN \E ok \in BOOLEAN : \E val \in Answers(EstimateGasReq) :
              /\ Query(EstimateGasReq, ok, val, "gasPrice")
              /\ recs' = IF pc' = "done" THEN recs
                         ELSE [recs EXCEPT ![opts].GasLimit = {IF ok THEN val ELSE 0}]
       ELSE /\ pc' = "gasPrice"
            /\ UNCHANGED <<queries, ret, recs>>
    /\ UNCHANGED <<chain, big, held, opts, entry, feeRet>>
    /\ UNCHANGED ext

\* if opts.GasPrice == nil { gasPrice, err = w.Client.EthGasPrice(); ...;
\*                           opts.GasPrice = &gasPrice }
StepGasPrice ==
    /\ pc = "gasPrice"
    /\ IF GasPriceUnset(recs[opts])
       THEN \E ok \in BOOLEAN : \E val \in Answers(GasPriceReq) :
              /\ Query(GasPriceReq, ok, val, "caps")
              /\ recs' = IF pc' = "done" THEN recs
                         ELSE [recs EXCEPT ![opts].GasPrice = "lp"]
              /\ big' = IF pc' = "done" THEN big
                        ELSE [big EXCEPT !["lp"] = IF ok THEN val ELSE 0]
       ELSE /\ pc' = "caps"
            /\ UNCHANGED <<queries, ret, recs, big>>
    /\ UNCHANGED <<chain, held, opts, entry, feeRet>>
    /\ UNCHANGED ext

\* if opts.GasTipCap == nil || opts.GasFeeCap == nil { ... }; return opts, nil
StepCaps ==
    /\ pc = "caps"
    /\ recs' = IF CapsUnset(recs[opts])
               THEN [recs EXCEPT ![opts] = SetCaps(recs[opts])]
               ELSE recs
    /\ ret' = [opts |-> opts, err |-> FALSE]
    /\ held' = opts
    /\ pc' = "done"
    /\ UNCHANGED <<chain, big, opts, entry, queries, feeRet>>
    /\ UNCHANGED ext



\* ------------------------------------------------------------ fee helpers
\* Faulty variant: the product is computed in place, fee := t.GasPrice.
MutGetOldFee(t, heap) ==
    IF t.GasPrice # "nil" /\ t.GasLimit # {}
    THEN LET fee == heap[t.GasPrice] * Deref(t.GasLimit)
         IN  [fee |-> {fee}, err |-> FALSE, heap |-> [heap EXCEPT ![t.GasPrice] = fee]]
    ELSE [fee |-> {}, err |-> TRUE, heap |-> heap]

\* TxOpts.GetOldFee on the record t over the heap: the fee returned ({} for
\* nil), the error, and the heap afterwards.  fee is a new(big.Int): the
\* product is written into no existing cell.
GetOldFee(t, heap) ==
    IF t.GasPrice # "nil" /\ t.GasLimit # {}
    THEN [fee |-> {heap[t.GasPrice] * Deref(t.GasLimit)}, err |-> FALSE, heap |-> heap]
    ELSE [fee |-> {}, err |-> TRUE, heap |-> heap]

\* Faulty variant: the tip cap is counted once, (tipCap + feeCap) * gasLimit.
MutGetNewFee(t, heap) ==
    IF t.GasTipCap # "nil" /\ t.GasFeeCap # "nil" /\ t.GasLimit # {}
    THEN LET totalCap == heap[t.GasTipCap] + heap[t.GasFeeCap]
         IN  [fee |-> {totalCap * Deref(t.GasLimit)}, err |-> FALSE, heap |-> heap]
    ELSE [fee |-> {}, err |-> TRUE, heap |-> heap]

\* TxOpts.GetNewFee: totalCap = new(big.Int).Mul(tip, 2) + feeCap, in fresh
\* cells; fee = totalCap * gasLimit.
GetNewFee(t, heap) ==
    IF t.GasTipCap # "nil" /\ t.GasFeeCap # "nil" /\ t.GasLimit # {}
    THEN LET totalCap == heap[t.GasTipCap] * 2 + heap[t.GasFeeCap]
         IN  [fee |-> {totalCap * Deref(t.GasLimit)}, err |-> FALSE, heap |-> heap]
    ELSE [fee |-> {}, err |-> TRUE, heap |-> heap]

\* The caller asks the record it holds for a fee estimate.
CallFee(op, res) ==
    /\ pc \in {"idle", "done"}
    /\ held # "nil"
    /\ feeRet' = [op |-> op, rec |-> held, fee |-> res.fee, err |-> res.err,
                  before |-> View(big, recs[held]), heapBefore |-> big]
    /\ big' = res.heap
    /\ UNCHANGED <<chain, recs, held, pc, opts, entry, queries, ret>>
    /\ UNCHANGED ext

CallGetOldFee == held # "nil" /\ CallFee("GetOldFee", GetOldFee(recs[held], big))
CallGetNewFee == held # "nil" /\ CallFee("GetNewFee", GetNewFee(recs[held], big))


\* ================================================================ signing
\* The curve.  crypto.Sign and crypto.Ecrecover are go-ethereum's secp256k1
\* ECDSA with public-key recovery; here the same scheme runs over the group
\* Z_CurveOrder with generator 1: a private key d has the public point d, a
\* point R and its negative share the x-coordinate XOf(R), and the recovery id
\* tells which of the two R was.  Hashes are numbers, reduced modulo the order.
CurveOrder == 11
Scalars == 1..(CurveOrder - 1)
Mod(a) == (a + CurveOrder * CurveOrder * CurveOrder) % CurveOrder
Inv(a) == CHOOSE x \in Scalars : Mod(a * x) = 1
XOf(R) == IF R <= CurveOrder - R THEN R ELSE CurveOrder - R
ParityOf(R) == IF R = XOf(R) THEN 0 ELSE 1
Lift(r, v) == IF v = 0 THEN r ELSE CurveOrder - r

\* ------------------------------------------------------------ sig bounds
MaxKey == 3      \* private keys 1..MaxKey (0 stands for a string that is no key)
MaxMsg == 2      \* messages are the byte strings <<>>, <<1>>, .., <<MaxMsg>>
MaxDoc == 2      \* typed-data documents 1..MaxDoc (0: one whose schema is broken)
MaxRS == 3       \* r and s of the forged signatures handed to Ecrecover: 0..MaxRS

Msgs == {<<>>} \cup {<<b>> : b \in 1..MaxMsg}

\* Keccak256 of a byte string, as a number.
Keccak256(bytes) ==
    LET RECURSIVE Fold(_, _)
        Fold(i, acc) == IF i > Len(bytes) THEN acc
                        ELSE Fold(i + 1, (acc * 31 + bytes[i] + 7) % 1009)
    IN  Fold(1, Len(bytes) + 1)

\* accounts.TextHash: Keccak256("\x19Ethereum Signed Message:\n" + len + msg)
TextHash(msg) == Keccak256(<<25, 69>> \o <<Len(msg)>> \o msg)

\* EIP712Hash: Keccak256(0x19 0x01 domainSeparator messageHash); HashStruct
\* fails on a document whose schema is broken.
EIP712Hash(doc) ==
    IF doc = 0 THEN [hash |-> 0, err |-> TRUE]
    ELSE [hash |-> Keccak256(<<25, 1, Keccak256(<<doc>>) % 256, doc>>), err |-> FALSE]

\* A 32-byte big-endian number (the values here fit the last byte).
Bytes32(n) == [i \in 1..32 |-> IF i = 32 THEN n ELSE 0]
\* The number in bytes from..to of b; -1 if it does not fit the last byte.
Num(b, from, to) ==
    IF \A i \in from..(to - 1) : b[i] = 0 THEN b[to] ELSE -1

\* crypto.FromECDSAPub: 0x04 and the point.
FromECDSAPub(Q) == <<4, Q>>

\* The deterministic nonce of a signature (RFC 6979): the first scalar from a
\* start derived from hash and key that gives a usable s.
NonceFor(h, d) ==
    LET start == (h + 3 * d) % (CurveOrder - 1)
        usable == {k \in Scalars : Mod(h + XOf(k) * d) # 0}
        dist(k) == (k - 1 - start + CurveOrder - 1) % (CurveOrder - 1)
    IN  CHOOSE k \in usable : \A j \in usable : dist(k) <= dist(j)

\* crypto.Sign(hash, key): the 65 bytes R || S || V with V in {0, 1}.
CryptoSign(h, d) ==
    LET k == NonceFor(h, d)
        r == XOf(k)
        sv == Mod(Inv(k) * (h + r * d))
    IN  Bytes32(r) \o Bytes32(sv) \o <<ParityOf(k)>>

\* crypto.Ecrecover(hash, sig): the public key the signature belongs to, or an
\* error: wrong length, recovery id above 1, r or s out of range, r not the
\* x-coordinate of a point, or the result the point at infinity.
CryptoEcrecover(h, sig) ==
    LET bad == [pub |-> <<>>, err |-> TRUE]
    IN  IF Len(sig) # 65 THEN bad
        ELSE LET r == Num(sig, 1, 32)
                 sv == Num(sig, 33, 64)
                 v == sig[65]
             IN  IF v > 1 \/ r < 1 \/ sv < 1 \/ r > (CurveOrder - 1) \div 2
                       \/ sv >= CurveOrder
                 THEN bad
                 ELSE LET Q == Mod(Inv(r) * (sv * Lift(r, v) - h))
                      IN  IF Q = 0 THEN bad
                          ELSE [pub |-> FromECDSAPub(Q), err |-> FALSE]

\* common.BytesToAddress(hash[12:]): the low 20 bytes of a 32-byte hash.
\* Address 0 is the zero value common.Address{}; no key hashes to it.
AddressBytes == 101
BytesToAddress12(hash) == 1 + (hash % AddressBytes)
ZeroAddress == 0

\* crypto.PubkeyToAddress
PubkeyToAddress(Q) == BytesToAddress12(Keccak256(Tail(FromECDSAPub(Q))))


\* ----------------------------------------------------------------- Signer
NoSigner == [key |-> 0, Address |-> ZeroAddress]

\* NewSigner(prvHex): HexToECDSA fails on a string that is no key.
NewSigner(k) ==
    IF k = 0 THEN [signer |-> NoSigner, err |-> TRUE]
    ELSE [signer |-> [key |-> k, Address |-> PubkeyToAddress(k)], err |-> FALSE]

\* Faulty variant: the recovery byte is left as the primitive gave it.
MutAddV(sig) == sig

\* sig[64] += 27 on a byte
AddV(sig) == [sig EXCEPT ![65] = (@ + 27) % 256]

\* The tail of SignMsg and of SignTypedData: crypto.Sign on the hash (signOk:
\* whether the primitive succeeds; it returns nil next to an error), then the
\* recovery byte moved to 27/28.
SignHash(s, hash, signOk) ==
    IF ~signOk THEN [sig |-> <<>>, err |-> TRUE]
    ELSE [sig |-> AddV(CryptoSign(hash, s.key)), err |-> FALSE]

\* Signer.SignMsg
SignMsg(s, msg, signOk) == SignHash(s, TextHash(msg), signOk)

\* Signer.SignTypedData
SignTypedData(s, doc, signOk) ==
    LET h == EIP712Hash(doc)
    IN  IF h.err THEN [sig |-> <<>>, err |-> TRUE]
        ELSE SignHash(s, h.hash, signOk)

\* -------------------------------------------------------------- Ecrecover
\* Faulty variants: a signature that is too short passes the length test;
\* 27 is not moved down.
MutLengthOK(sig) == Len(sig) <= 65
MutNormalizeV(sig) == IF sig[65] > 27 THEN [sig EXCEPT ![65] = (@ - 27) % 256] ELSE sig

\* The three tests of Ecrecover and the normalisation of the recovery byte.
LengthOK(sig) == Len(sig) = 65
RecoveryByteOK(b) == b = 27 \/ b = 28 \/ b = 1 \/ b = 0
NormalizeV(sig) == IF sig[65] >= 27 THEN [sig EXCEPT ![65] = (@ - 27) % 256] ELSE sig

\* Faulty variant: the 0x04 prefix is hashed too.
MutAddressOf(publicBy) == BytesToAddress12(Keccak256(publicBy))

\* common.BytesToAddress(crypto.Keccak256(publicBy[1:])[12:])
AddressOf(publicBy) == BytesToAddress12(Keccak256(Tail(publicBy)))

\* Faulty variant: sig := signature, the caller's own array.
MutCopySig(signature) == [bytes |-> signature, shared |-> TRUE]

\* sig := make([]byte, len(signature)); copy(sig, signature): the same bytes
\* in an array of its own.
CopySig(signature) == [bytes |-> signature, shared |-> FALSE]

\* The caller's slice once written holds the bytes written to sig: what it
\* held before, unless sig shares its array.
CallerSlice(signature, sig, written) == IF sig.shared THEN written ELSE signature

\* Ecrecover(hash, signature): what it returns, the calls it made to
\* crypto.Ecrecover (prim), the caller's slice afterwards (signature), and
\* whether it panicked (an index past the end of sig).
Ecrecover(hash, signature) ==
    LET sig == CopySig(signature).bytes
        out == [publicBy |-> <<>>, address |-> ZeroAddress, err |-> TRUE,
                prim |-> <<>>, signature |-> signature, panicked |-> FALSE]
    IN  IF ~LengthOK(sig) THEN out
        ELSE IF Len(sig) < 65 THEN [out EXCEPT !.panicked = TRUE, !.err = FALSE]
        ELSE IF ~RecoveryByteOK(sig[65]) THEN out
        ELSE LET norm == NormalizeV(sig)
                 res == CryptoEcrecover(hash, norm)
                 called == [out EXCEPT
                              !.prim = <<[hash |-> hash, sig |-> norm]>>,
                              !.signature = CallerSlice(signature, CopySig(signature), norm)]
             IN  IF res.err THEN called
                 ELSE [called EXCEPT !.publicBy = res.pub,
                                     !.address = AddressOf(res.pub),
                                     !.err = FALSE]

\* ------------------------------------------------------------ sig actions
NoSig == [op |-> "none", hash |-> 0, sig |-> <<>>, err |-> FALSE]
NoRec == [of |-> "none", hash |-> 0, given |-> <<>>, out |-> Ecrecover(0, <<>>),
          first |-> Ecrecover(0, <<>>)]

InitSig ==
    /\ signer = NoSigner
    /\ sigRet = NoSig
    /\ recRet = NoRec

\* The last bytes tried in forged signatures.
MaxV == 29
VBytes == (0..MaxV) \cup {255}

\* Signatures that did not come from the Signer: of 0, 64, 65 and 66 bytes.
Forged ==
    {<<>>} \cup
    {Bytes32(r) \o Bytes32(sv) \o tl :
        r \in 0..MaxRS, sv \in 0..MaxRS,
        tl \in {<<>>} \cup {<<v>> : v \in VBytes} \cup {<<v, 0>> : v \in VBytes}}

CallNewSigner(k) ==
    /\ signer' = NewSigner(k).signer
    /\ sigRet' = NoSig
    /\ recRet' = NoRec
    /\ UNCHANGED notSig

CallSignMsg(msg, signOk) ==
    /\ signer # NoSigner
    /\ LET res == SignMsg(signer, msg, signOk)
       IN  sigRet' = [op |-> "SignMsg", hash |-> TextHash(msg),
                      sig |-> res.sig, err |-> res.err]
    /\ recRet' = NoRec
    /\ UNCHANGED <<signer, notSig>>

CallSignTypedData(doc, signOk) ==
    /\ signer # NoSigner
    /\ LET res == SignTypedData(signer, doc, signOk)
       IN  sigRet' = [op |-> "SignTypedData", hash |-> EIP712Hash(doc).hash,
                      sig |-> res.sig, err |-> res.err]
    /\ recRet' = NoRec
    /\ UNCHANGED <<signer, notSig>>

\* Ecrecover on the signature the Signer just returned, with the hash it signed.
CallEcrecoverSigned ==
    /\ sigRet.op # "none" /\ ~sigRet.err
    /\ recRet' = [of |-> "signed", hash |-> sigRet.hash, given |-> sigRet.sig,
                  out |-> Ecrecover(sigRet.hash, sigRet.sig),
                  first |-> Ecrecover(sigRet.hash, sigRet.sig)]
    /\ UNCHANGED <<signer, sigRet, notSig>>

\* Ecrecover on any hash and any bytes, by a caller that holds no result yet.
CallEcrecover(hash, signature) ==
    /\ sigRet = NoSig /\ recRet = NoRec
    /\ recRet' = [of |-> "forged", hash |-> hash, given |-> signature,
                  out |-> Ecrecover(hash, signature),
                  first |-> Ecrecover(hash, signature)]
    /\ sigRet' = NoSig
    /\ UNCHANGED <<signer, notSig>>

\* Ecrecover once more on the slice the caller passed before, as the call
\* before left it.
CallEcrecoverAgain ==
    /\ recRet.of \in {"signed", "forged"}
    /\ recRet' = [of |-> "again", hash |-> recRet.hash, given |-> recRet.out.signature,
                  out |-> Ecrecover(recRet.hash, recRet.out.signature),
                  first |-> recRet.out]
    /\ UNCHANGED <<signer, sigRet, notSig>>

NextSig ==
    \/ \E k \in 0..MaxKey : CallNewSigner(k)
    \/ \E msg \in Msgs, signOk \in BOOLEAN : CallSignMsg(msg, signOk)
    \/ \E doc \in 0..MaxDoc, signOk \in BOOLEAN : CallSignTypedData(doc, signOk)
    \/ CallEcrecoverSigned
    \/ \E msg \in Msgs, signature \in Forged : CallEcrecover(TextHash(msg), signature)
    \/ CallEcrecoverAgain


\* ============================================================== ABI codec
MaxArg == 2      \* argument values 0..MaxArg, each a 32-byte word

\* The Contract's ABI (abi.JSON of the descriptor given to NewContract): every
\* parameter a uint256.  ID is the 4-byte selector of a method and the topic
\* hash of an event (a hash as a number, as Keccak256 above).
Arg(name, indexed) == [Name |-> name, Indexed |-> indexed]
ABIMethods ==
    { [Name |-> "transfer", ID |-> <<169, 5, 156, 187>>,
       Inputs |-> <<Arg("to", FALSE), Arg("amount", FALSE)>>,
       Outputs |-> <<Arg("ok", FALSE)>>],
      [Name |-> "ping", ID |-> <<92, 54, 177, 134>>,
       Inputs |-> <<>>, Outputs |-> <<Arg("pong", FALSE)>>] }
ABIEvents ==
    { [Name |-> "Transfer", ID |-> 221,
       Inputs |-> <<Arg("from", TRUE), Arg("to", TRUE), Arg("value", FALSE)>>],
      [Name |-> "Deposit", ID |-> 225,
       Inputs |-> <<Arg("who", TRUE), Arg("amount", FALSE)>>] }
UnknownID == <<1, 2, 3, 4>>
UnknownTopic == 200

\* A Go map: nil, or a set of <<key, value>> pairs with one pair per key.
NilMap == [isNil |-> TRUE, kv |-> {}]
MakeMap == [isNil |-> FALSE, kv |-> {}]
MapPut(m, k, v) == [m EXCEPT !.kv = {p \in @ : p[1] # k} \cup {<<k, v>>}]

\* abi.ABI.MethodById / EventByID
MethodById(id) ==
    IF \E m \in ABIMethods : m.ID = id
    THEN [method |-> CHOOSE m \in ABIMethods : m.ID = id, err |-> FALSE]
    ELSE [method |-> [Name |-> "", ID |-> id, Inputs |-> <<>>, Outputs |-> <<>>],
          err |-> TRUE]
EventByID(topic) ==
    IF \E e \in ABIEvents : e.ID = topic
    THEN [event |-> CHOOSE e \in ABIEvents : e.ID = topic, err |-> FALSE]
    ELSE [event |-> [Name |-> "", ID |-> topic, Inputs |-> <<>>], err |-> TRUE]

\* abi.Arguments.NonIndexed, and the loop of DecodeEvent that keeps the
\* indexed ones.
NonIndexed(args) == SelectSeq(args, LAMBDA a : ~a.Indexed)
IndexedArgs(args) == SelectSeq(args, LAMBDA a : a.Indexed)

\* abi.Arguments.UnpackValues: word i of data for the i-th non-indexed
\* argument; an error if data ends before it.  Bytes past the last word are
\* ignored.
UnpackValues(args, data) ==
    LET n == Len(NonIndexed(args))
    IN  IF Len(data) < 32 * n THEN [vals |-> <<>>, err |-> TRUE]
        ELSE [vals |-> [i \in 1..n |-> Num(data, 32 * (i - 1) + 1, 32 * i)],
              err |-> FALSE]

\* abi.Arguments.Unpack
Unpack(args, data) ==
    IF Len(data) = 0
    THEN [vals |-> <<>>, err |-> NonIndexed(args) # <<>>]
    ELSE UnpackValues(args, data)

\* abi.Arguments.UnpackIntoMap(v, data): all the non-indexed arguments are put
\* under their names, or none.
UnpackIntoMap(v, args, data) ==
    LET un == Unpack(args, data)
        names == NonIndexed(args)
        RECURSIVE Put(_, _)
        Put(i, m) == IF i > Len(un.vals) THEN m
                     ELSE Put(i + 1, MapPut(m, names[i].Name, un.vals[i]))
    IN  IF v.isNil \/ un.err THEN [map |-> v, err |-> TRUE]
        ELSE [map |-> Put(1, v), err |-> FALSE]

\* abi.ParseTopicsIntoMap(out, fields, topics): one topic per field.
ParseTopicsIntoMap(out, fields, topics) ==
    LET RECURSIVE Put(_, _)
        Put(i, m) == IF i > Len(fields) THEN m
                     ELSE Put(i + 1, MapPut(m, fields[i].Name, topics[i]))
    IN  IF Len(fields) # Len(topics) THEN [map |-> out, err |-> TRUE]
        ELSE [map |-> Put(1, out), err |-> FALSE]

\* Faulty variant: the selector's last byte is taken for payload.
MutPayloadOf(data) == SubSeq(data, 4, Len(data))

\* data[:4] and data[4:]
SelectorOf(data) == SubSeq(data, 1, 4)
PayloadOf(data) == SubSeq(data, 5, Len(data))

\* Contract.DecodeData: what it returns and the selector lookups it made.
DecodeData(data) ==
    LET out == [methodName |-> "", params |-> NilMap, err |-> TRUE, lookups |-> <<>>]
    IN  IF Len(data) < 4 THEN out
        ELSE LET found == MethodById(SelectorOf(data))
                 looked == [out EXCEPT !.lookups = <<SelectorOf(data)>>]
             IN  IF found.err THEN looked
                 ELSE LET un == UnpackIntoMap(MakeMap, found.method.Inputs, PayloadOf(data))
                      IN  [looked EXCEPT !.methodName = found.method.Name,
                                         !.params = un.map,
                                         !.err = un.err]

\* Faulty variant: topics[0] is taken for the first indexed argument.
MutTopicArgs(topics) == topics

\* topics[1:]
TopicArgs(topics) == Tail(topics)

\* Contract.DecodeEvent
DecodeEvent(topics, data) ==
    LET out == [eventName |-> "", values |-> NilMap, err |-> TRUE]
    IN  IF Len(topics) < 1 THEN out
        ELSE LET found == EventByID(topics[1])
             IN  IF found.err THEN out
                 ELSE LET event == found.event
                          parsed == ParseTopicsIntoMap(MakeMap, IndexedArgs(event.Inputs),
                                                       TopicArgs(topics))
                          un == UnpackIntoMap(parsed.map, event.Inputs, data)
                      IN  IF parsed.err
                          THEN [eventName |-> event.Name, values |-> parsed.map, err |-> TRUE]
                          ELSE [eventName |-> event.Name, values |-> un.map, err |-> un.err]

\* Hex strings are sequences of characters: the digits 0..15, 'x' and a
\* character that is no digit.
CharX == 33
CharG == 34
HexOf(bytes) ==
    [i \in 1..(2 * Len(bytes)) |->
        IF i % 2 = 1 THEN bytes[(i + 1) \div 2] \div 16 ELSE bytes[i \div 2] % 16]

\* hexutil.Decode: empty input, a missing 0x prefix, an odd number of digits
\* and a character that is no digit are errors.
HexutilDecode(input) ==
    LET body == SubSeq(input, 3, Len(input))
        bad == [bytes |-> <<>>, err |-> TRUE]
    IN  IF Len(input) = 0 THEN bad
        ELSE IF ~(Len(input) >= 2 /\ input[1] = 0 /\ input[2] = CharX) THEN bad
        ELSE IF Len(body) % 2 = 1 \/ \E i \in 1..Len(body) : body[i] > 15 THEN bad
        ELSE [bytes |-> [i \in 1..(Len(body) \div 2) |->
                            16 * body[2 * i - 1] + body[2 * i]],
              err |-> FALSE]

\* abi.ABI.getArguments: the outputs of a method or the inputs of an event of
\* that name.
GetArguments(name, data) ==
    IF \E m \in ABIMethods : m.Name = name
    THEN [args |-> (CHOOSE m \in ABIMethods : m.Name = name).Outputs,
          err |-> Len(data) % 32 # 0]
    ELSE IF \E e \in ABIEvents : e.Name = name
    THEN [args |-> (CHOOSE e \in ABIEvents : e.Name = name).Inputs, err |-> FALSE]
    ELSE [args |-> <<>>, err |-> TRUE]

\* abi.ABI.Unpack(name, data)
ABIUnpack(name, data) ==
    LET got == GetArguments(name, data)
    IN  IF got.err THEN [vals |-> <<>>, err |-> TRUE] ELSE Unpack(got.args, data)

\* Faulty variant: empty return bytes are unpacked like any other.
MutEmptyOutput(data) == FALSE

\* len(data) == 0
EmptyOutput(data) == Len(data) = 0

\* The output argument of DecodeFromMethod, of dynamic type: a string, a byte
\* slice or something else.
StringOutput(str) == [kind |-> "string", str |-> str, bytes |-> <<>>]
BytesOutput(b) == [kind |-> "bytes", str |-> <<>>, bytes |-> b]
OtherOutput == [kind |-> "other", str |-> <<>>, bytes |-> <<>>]

\* The results argument: a nil pointer, or a pointer to the caller's list,
\* whose entries are the targets values are unpacked into.
NilResults == [isNil |-> TRUE, list |-> <<>>]
Results(list) == [isNil |-> FALSE, list |-> list]

\* Contract.DecodeFromMethod: the error, the list results points to after the
\* call (the caller's, unless results was nil) and the calls made to the ABI.
DecodeFromMethod(method, output, results) ==
    LET decoded == IF output.kind = "string" THEN HexutilDecode(output.str)
                   ELSE IF output.kind = "bytes"
                        THEN [bytes |-> output.bytes, err |-> FALSE]
                        ELSE [bytes |-> <<>>, err |-> TRUE]
        data == decoded.bytes
        res == ABIUnpack(method, data)
    IN  IF decoded.err
        THEN [err |-> TRUE, list |-> results.list, abiCalls |-> <<>>]
        ELSE IF EmptyOutput(data)
        THEN [err |-> FALSE, list |-> <<>>, abiCalls |-> <<>>]
        ELSE IF Len(results.list) = 0
        THEN [err |-> res.err, list |-> res.vals,
              abiCalls |-> << <<"Unpack", method>> >>]
        ELSE [err |-> res.err,
              list |-> IF res.err THEN results.list
                       ELSE [results.list EXCEPT ![1] = res.vals],
              abiCalls |-> << <<"UnpackIntoInterface", method>> >>]

\* ---------------------------------------------------------- callers of
\* the codec
ArgVals == 0..MaxArg
Payloads ==
    {<<>>, <<7>>} \cup {Bytes32(a) : a \in ArgVals}
    \cup {Bytes32(a) \o Bytes32(b) : a, b \in ArgVals}
    \cup {Bytes32(a) \o Bytes32(b) \o <<9>> : a, b \in ArgVals}
CallDatas ==
    {SubSeq(UnknownID, 1, n) : n \in 0..3}
    \cup {SubSeq(m.ID, 1, 3) : m \in ABIMethods}
    \cup {sel \o pl : sel \in {m.ID : m \in ABIMethods} \cup {UnknownID}, pl \in Payloads}
TopicLists ==
    {<<>>}
    \cup {<<id>> \o ts : id \in {e.ID : e \in ABIEvents} \cup {UnknownTopic},
                         ts \in UNION {[1..n -> ArgVals] : n \in 0..3}}
EventDatas == {<<>>, <<7>>} \cup {Bytes32(a) : a \in ArgVals}
MethodNames == {m.Name : m \in ABIMethods} \cup {"nope"}
OutputVals ==
    {StringOutput(str) :
        str \in {<<>>, <<0, CharX>>, <<0, CharX, 1>>, <<1, 2>>, <<0, CharX, CharG, 1>>}
                \cup {<<0, CharX>> \o HexOf(Bytes32(a)) : a \in ArgVals}}
    \cup {BytesOutput(b) : b \in {<<>>, <<7>>} \cup {Bytes32(a) : a \in ArgVals}}
    \cup {OtherOutput}
ResultsVals == {NilResults, Results(<<>>), Results(<< <<9>> >>)}

NoAbi == [op |-> "none", in |-> <<>>, out |-> [err |-> FALSE]]
InitAbi == abiRet = NoAbi

CallDecodeData(data) ==
    /\ abiRet' = [op |-> "DecodeData", in |-> <<data>>, out |-> DecodeData(data)]
    /\ UNCHANGED notAbi

CallDecodeEvent(topics, data) ==
    /\ abiRet' = [op |-> "DecodeEvent", in |-> <<topics, data>>,
                  out |-> DecodeEvent(topics, data)]
    /\ UNCHANGED notAbi

CallDecodeFromMethod(method, output, results) ==
    /\ abiRet' = [op |-> "DecodeFromMethod", in |-> <<method, output, results>>,
                  out |-> DecodeFromMethod(method, output, results)]
    /\ UNCHANGED notAbi

NextAbi ==
    \/ \E data \in CallDatas : CallDecodeData(data)
    \/ \E topics \in TopicLists, data \in EventDatas : CallDecodeEvent(topics, data)
    \/ \E method \in MethodNames, output \in OutputVals, results \in ResultsVals :
          CallDecodeFromMethod(method, output, results)

\* ================================================================ sending
\* The wallet's chain id, fixed at construction.
ChainID == 1

NoTx == [type |-> "none", nonce |-> 0, gas |-> 0, tip |-> 0, fee |-> 0,
         value |-> 0, chainID |-> 0]

\* Signer.SignTx: the signed types.DynamicFeeTx.
SignTx(nonce, amount, gasLimit, gasTipCap, gasFeeCap, chainID) ==
    [type |-> "dynamic", nonce |-> nonce, gas |-> gasLimit, tip |-> gasTipCap,
     fee |-> gasFeeCap, value |-> amount, chainID |-> chainID]

\* Signer.SignLegacyTx: the signed legacy transaction; its one price is both
\* what it tips and what it pays at most.
SignLegacyTx(nonce, amount, gasLimit, gasPrice, chainID) ==
    [type |-> "legacy", nonce |-> nonce, gas |-> gasLimit, tip |-> gasPrice,
     fee |-> gasPrice, value |-> amount, chainID |-> chainID]

\* tx.MarshalBinary: a type byte and the fields in order (a legacy
\* transaction carries its price once).
MarshalBinary(tx) ==
    IF tx.type = "dynamic"
    THEN <<2, tx.chainID, tx.nonce, tx.tip, tx.fee, tx.gas, tx.value>>
    ELSE <<0, tx.chainID, tx.nonce, tx.tip, tx.gas, tx.value>>

\* The node's decoding of a raw transaction.
UnmarshalBinary(raw) ==
    IF Len(raw) = 7 /\ raw[1] = 2
    THEN [tx |-> [type |-> "dynamic", nonce |-> raw[3], gas |-> raw[6], tip |-> raw[4],
                  fee |-> raw[5], value |-> raw[7], chainID |-> raw[2]], err |-> FALSE]
    ELSE IF Len(raw) = 6 /\ raw[1] = 0
    THEN [tx |-> [type |-> "legacy", nonce |-> raw[3], gas |-> raw[5], tip |-> raw[4],
                  fee |-> raw[4], value |-> raw[6], chainID |-> raw[2]], err |-> FALSE]
    ELSE [tx |-> NoTx, err |-> TRUE]

\* hexutil.Encode
HexutilEncode(bytes) == <<0, CharX>> \o HexOf(bytes)

\* The pool holds at most one transaction per nonce: its tip and fee cap.
NoPooled == [tip |-> 0, fee |-> 0]

\* Whether the node takes a transaction of the wallet's account: not one whose
\* nonce is already mined, and one for a nonce already pooled only if it
\* raises both the tip and the fee cap.
NodeAccepts(tx, counts, pooled) ==
    /\ tx.chainID = ChainID
    /\ tx.nonce >= counts.latest
    /\ tx.nonce \in DOMAIN pooled
    /\ pooled[tx.nonce] # NoPooled =>
           tx.tip > pooled[tx.nonce].tip /\ tx.fee > pooled[tx.nonce].fee

\* Faulty variant: a failed step does not end the call.
MutSendAfter(ok, next) == next

\* if err != nil { return }: where the call goes after a step.
SendAfter(ok, next) == IF ok THEN next ELSE "returned"

SendStages == <<"resolve", "sign", "serialize", "broadcast">>
NoSend == [kind |-> "none", stage |-> "idle", reuse |-> FALSE,
           nonceByCaller |-> FALSE, pendingSeen |-> 0, tx |-> NoTx, raw |-> <<>>,
           trail |-> <<>>, broadcasts |-> <<>>, err |-> FALSE, errAt |-> "none"]
NoLast == [has |-> FALSE, nonce |-> 0, nonceByCaller |-> FALSE]

InitSend ==
    /\ send = NoSend
    /\ last = NoLast
    /\ pool = [n \in NonceVals |-> NoPooled]

SendIdle == send.stage \in {"idle", "returned"}

\* One step of a send was tried.
Tried(step, ok) == [step |-> step, ok |-> ok]

\* What is kept of a call once the next one starts: the nonce it signed, if it
\* succeeded.
Archive ==
    IF send.stage = "returned"
    THEN IF send.err THEN NoLast
         ELSE [has |-> TRUE, nonce |-> send.tx.nonce,
               nonceByCaller |-> send.nonceByCaller]
    ELSE last

\* Between two sends the caller lets go of the record it holds.  Runs are
\* followed up to the call after a successful one.
SendForget ==
    /\ SendIdle
    /\ ~last.has
    /\ Reset
    /\ send' = NoSend
    /\ last' = Archive
    /\ UNCHANGED <<pool, notSend>>

\* Entry of SendTx or SendLegacyTx with the options argument o, up to the call
\* of InitTxOpts.  The record is reused when it is the one the previous call
\* worked on.
SendBegin(o) ==
    /\ SendIdle
    /\ ~(last.has /\ send.stage = "returned")
    /\ Enter(o)
    /\ LET reuse == pc = "done" /\ o # "nil"
       IN  send' = [NoSend EXCEPT
                      !.stage = "resolve",
                      !.reuse = reuse,
                      !.nonceByCaller = IF reuse THEN send.nonceByCaller
                                        ELSE o # "nil" /\ recs[o].Nonce # {}]
    /\ last' = Archive
    /\ UNCHANGED <<pool, notSend>>

\* InitTxOpts has returned: its error ends the call; otherwise a nil amount
\* becomes zero and the transaction is signed from the resolved options.  The
\* method called (kind) and the amount (nil: {}) play no part before this
\* point and are drawn here.
SendSign(kind, amt, ok) ==
    /\ send.stage = "resolve"
    /\ pc = "done"
    /\ IF ret.err
       THEN send' = [send EXCEPT !.kind = kind,
                                 !.stage = SendAfter(FALSE, "signed"),
                                 !.trail = <<Tried("resolve", FALSE)>>,
                                 !.err = TRUE, !.errAt = "resolve"]
       ELSE LET t == recs[ret.opts]
                amount == IF amt = {} THEN 0 ELSE Deref(amt)
                tx == IF kind = "SendTx"
                      THEN SignTx(Deref(t.Nonce), amount, Deref(t.GasLimit),
                                  big[t.GasTipCap], big[t.GasFeeCap], ChainID)
                      ELSE SignLegacyTx(Deref(t.Nonce), amount, Deref(t.GasLimit),
                                        big[t.GasPrice], ChainID)
            IN  send' = [send EXCEPT
                           !.kind = kind,
                           !.stage = SendAfter(ok, "signed"),
                           !.trail = <<Tried("resolve", TRUE), Tried("sign", ok)>>,
                           !.pendingSeen = chain.pending,
                           !.tx = IF ok THEN tx ELSE NoTx,
                           !.err = ~ok,
                           !.errAt = IF ok THEN "none" ELSE "sign"]
    /\ UNCHANGED <<coreVars, last, pool, notSend>>

\* raw, err := tx.MarshalBinary()
SendMarshal(ok) ==
    /\ send.stage = "signed"
    /\ send' = [send EXCEPT
                  !.stage = SendAfter(ok, "raw"),
                  !.trail = Append(@, Tried("serialize", ok)),
                  !.raw = IF ok THEN MarshalBinary(send.tx) ELSE <<>>,
                  !.err = ~ok,
                  !.errAt = IF ok THEN "none" ELSE "serialize"]
    /\ UNCHANGED <<coreVars, last, pool, notSend>>

\* txHash, err = w.Client.EthSendRawTransaction(hexutil.Encode(raw)): the node
\* decodes what it is sent and pools the transaction or refuses it (up: the
\* node is reachable and has no other objection).  A pooled transaction with
\* the next nonce is counted as pending, at once or not yet (counted).
SendBroadcast(up, counted) ==
    /\ send.stage = "raw"
    /\ LET hex == HexutilEncode(send.raw)
           bytes == HexutilDecode(hex)
           got == UnmarshalBinary(bytes.bytes)
           ok == up /\ ~bytes.err /\ ~got.err /\ NodeAccepts(got.tx, chain, pool)
       IN  /\ send' = [send EXCEPT
                         !.stage = "returned",
                         !.trail = Append(@, Tried("broadcast", ok)),
                         !.broadcasts = Append(@, hex),
                         !.err = ~ok,
                         !.errAt = IF ok THEN "none" ELSE "broadcast"]
           /\ pool' = IF ok THEN [pool EXCEPT ![got.tx.nonce] =
                                     [tip |-> got.tx.tip, fee |-> got.tx.fee]]
                      ELSE pool
           /\ chain' = IF ok /\ counted /\ got.tx.nonce = chain.pending
                          /\ chain.pending < MaxCount
                       THEN [chain EXCEPT !.pending = @ + 1]
                       ELSE chain
    /\ UNCHANGED <<recs, big, held, pc, opts, entry, queries, ret, feeRet>>
    /\ UNCHANGED <<last, notSend>>

NextSend ==
    \/ SendForget
    \/ SendIdle /\ \E n \in Opt(NonceVals), g \in Opt(GasVals) :
                   \E p \in Opt(PriceVals), t \in Opt(PriceVals), f \in Opt(PriceVals) :
                      MakeOpts(n, g, p, t, f)
    \/ NodeMine
    \/ \E o \in {"nil", held} : SendBegin(o)
    \/ StepNonce
    \/ StepGasLimit
    \/ StepGasPrice
    \/ StepCaps
    \/ \E kind \in {"SendTx", "SendLegacyTx"}, amt \in Opt({1}), ok \in BOOLEAN :
          SendSign(kind, amt, ok)
    \/ \E ok \in BOOLEAN : SendMarshal(ok)
    \/ \E up \in BOOLEAN, counted \in BOOLEAN : SendBroadcast(up, counted)

\* ============================================================ concurrency
\* Two goroutines call InitTxOpts on the same *Wallet.  Each was handed nil
\* or the caller's record "a"; a call handed nil allocates a record of its
\* own.  A step is one read of the record, or one RPC answer with the write
\* that follows it.
Calls == {1, 2}
Other(i) == 3 - i
FreshOf(i) == IF i = 1 THEN "f1" ELSE "f2"
LocalPrice(i) == IF i = 1 THEN "lp1" ELSE "lp2"
ConcRecs == {"a", "f1", "f2"}
ConcCells == {"cp", "ct", "cf", "lp1", "lp2"}
Fields == {"Nonce", "GasLimit", "GasPrice", "GasTipCap", "GasFeeCap"}

\* The Signer's key of the wallet.
WalletKey == 1
InitWallet == [Address |-> Address, ChainID |-> ChainID, key |-> WalletKey]

NoCall == [pc |-> "idle", asked |-> FALSE, arg |-> "nil", opts |-> "nil", ret |-> NoRet]

InitConc ==
    /\ wallet = InitWallet
    /\ crecs = [r \in ConcRecs |-> EmptyOpts]
    /\ cbig = [c \in ConcCells |-> 0]
    /\ call = [i \in Calls |-> NoCall]
    /\ writer = [r \in ConcRecs |-> [f \in Fields |-> 0]]
    /\ observed = {}
    /\ overwritten = {}

\* The other call wrote field f of record r and has not resolved r fully.
PartialByOther(i, r, f) ==
    /\ writer[r][f] = Other(i)
    /\ call[Other(i)].pc # "done" \/ call[Other(i)].ret.err

\* What call i learns by reading the fields fs of its record.
Reads(i, fs) ==
    observed \cup {<<i, f, Other(i)>> : f \in {g \in fs : PartialByOther(i, call[i].opts, g)}}

\* What call i destroys by writing the fields fs of its record.
Writes(i, fs) ==
    overwritten \cup
        {<<i, f, Other(i)>> : f \in {g \in fs : writer[call[i].opts][g] = Other(i)}}

\* The caller fills in its record before it starts the goroutines.
ConcMake(n, g, p, t) ==
    /\ \A i \in Calls : call[i].pc = "idle"
    /\ crecs["a"] = EmptyOpts
    /\ <<n, g, p, t>> # <<{}, {}, {}, {}>>
    /\ crecs' = [crecs EXCEPT !["a"] =
                   [Nonce |-> n, GasLimit |-> g,
                    GasPrice |-> IF p = {} THEN "nil" ELSE "cp",
                    GasTipCap |-> IF t = {} THEN "nil" ELSE "ct",
                    GasFeeCap |-> IF t = {} THEN "nil" ELSE "cf"]]
    /\ cbig' = [cbig EXCEPT !["cp"] = IF p = {} THEN 0 ELSE Deref(p),
                            !["ct"] = IF t = {} THEN 0 ELSE Deref(t),
                            !["cf"] = IF t = {} THEN 0 ELSE Deref(t)]
    /\ UNCHANGED <<wallet, call, writer, observed, overwritten>>
    /\ UNCHANGED notConc

\* if opts == nil { opts = &TxOpts{} }
ConcBegin(i, o) ==
    /\ call[i].pc = "idle"
    /\ call' = [call EXCEPT ![i] = [pc |-> "nonce", asked |-> FALSE, arg |-> o,
                                    opts |-> IF o = "nil" THEN FreshOf(i) ELSE o,
                                    ret |-> NoRet]]
    /\ UNCHANGED <<wallet, crecs, cbig, writer, observed, overwritten>>
    /\ UNCHANGED notConc

\* The stages that test one field and query the node when it is unset.
ConcStage(at) ==
    IF at = "nonce"
    THEN [field |-> "Nonce", req |-> GetPendingNonce, next |-> "gasLimit"]
    ELSE IF at = "gasLimit"
    THEN [field |-> "GasLimit", req |-> EstimateGasReq, next |-> "gasPrice"]
    ELSE [field |-> "GasPrice", req |-> GasPriceReq, next |-> "caps"]

ConcUnset(t, f) ==
    IF f = "Nonce" THEN NonceUnset(t)
    ELSE IF f = "GasLimit" THEN GasLimitUnset(t)
    ELSE GasPriceUnset(t)

\* if opts.X == nil {: the read.  An unset field sends the query.
ConcTest(i) ==
    /\ call[i].pc \in {"nonce", "gasLimit", "gasPrice"}
    /\ ~call[i].asked
    /\ LET st == ConcStage(call[i].pc)
       IN  /\ observed' = Reads(i, {st.field})
           /\ call' = IF ConcUnset(crecs[call[i].opts], st.field)
                      THEN [call EXCEPT ![i].asked = TRUE]
                      ELSE [call EXCEPT ![i].pc = st.next]
    /\ UNCHANGED <<wallet, crecs, cbig, writer, overwritten>>
    /\ UNCHANGED notConc

\* The answer to the query: an error returns (nil, err); a value is stored
\* through opts (the price in the call's local gasPrice, opts.GasPrice its
\* address).
ConcAnswer(i, ok, val) ==
    /\ call[i].asked
    /\ LET st == ConcStage(call[i].pc)
           r == call[i].opts
       IN  /\ val \in Answers([st.req EXCEPT !.addr = IF @ = "" THEN "" ELSE wallet.Address])
           /\ call' = [call EXCEPT
                         ![i].pc = AfterQuery(ok, st.next),
                         ![i].asked = FALSE,
                         ![i].ret = IF ok THEN @ ELSE [opts |-> "nil", err |-> TRUE]]
           /\ crecs' = IF ~ok THEN crecs
                       ELSE IF st.field = "GasPrice"
                       THEN [crecs EXCEPT ![r].GasPrice = LocalPrice(i)]
                       ELSE [crecs EXCEPT ![r][st.field] = {val}]
           /\ cbig' = IF ok /\ st.field = "GasPrice"
                      THEN [cbig EXCEPT ![LocalPrice(i)] = val] ELSE cbig
           /\ overwritten' = IF ok THEN Writes(i, {st.field}) ELSE overwritten
           /\ writer' = IF ok THEN [writer EXCEPT ![r][st.field] = i] ELSE writer
    /\ UNCHANGED <<wallet, observed>>
    /\ UNCHANGED notConc

\* if opts.GasTipCap == nil || opts.GasFeeCap == nil { ... }; return opts, nil
ConcCaps(i) ==
    /\ call[i].pc = "caps"
    /\ LET r == call[i].opts
           unset == CapsUnset(crecs[r])
           caps == {"GasTipCap", "GasFeeCap"}
       IN  /\ observed' = Reads(i, IF unset THEN caps \cup {"GasPrice"} ELSE caps)
           /\ crecs' = IF unset THEN [crecs EXCEPT ![r] = SetCaps(crecs[r])] ELSE crecs
           /\ overwritten' = IF unset THEN Writes(i, caps) ELSE overwritten
           /\ writer' = IF unset
                        THEN [writer EXCEPT ![r]["GasTipCap"] = i, ![r]["GasFeeCap"] = i]
                        ELSE writer
           /\ call' = [call EXCEPT ![i].pc = "done",
                                   ![i].ret = [opts |-> r, err |-> FALSE]]
    /\ UNCHANGED <<wallet, cbig>>
    /\ UNCHANGED notConc

NextConc ==
    \/ \E n \in Opt(NonceVals), g \in Opt(GasVals), p \in Opt(PriceVals), t \in Opt(PriceVals) :
          ConcMake(n, g, p, t)
    \/ \E i \in Calls, o \in {"nil", "a"} : ConcBegin(i, o)
    \/ \E i \in Calls : ConcTest(i)
    \/ \E i \in Calls, ok \in BOOLEAN, val \in NonceVals \cup GasVals \cup PriceVals :
          ConcAnswer(i, ok, val)
    \/ \E i \in Calls : ConcCaps(i)

\* =========================================================== construction
MaxChain == 2     \* chain ids given as *big.Int or held by a wallet: 1..MaxChain
MaxOptions == 2   \* at most this many options in a call of NewWallet

\* Strings are sequences of characters: the decimal digits 0..9 and
\* characters that are no digit (CharX, CharG).
\* big.Int.String(): the decimal digits of n; "<nil>" for a nil pointer.
NilString == <<CharX, CharG>>
RECURSIVE Digits(_)
Digits(n) == IF n < 10 THEN <<n>> ELSE Append(Digits(n \div 10), n % 10)
BigString(id) == IF id = {} THEN NilString ELSE Digits(Deref(id))

\* new(big.Int).SetString(version, 10): the number, and ok only for a
\* non-empty string of decimal digits.
SetString10(str) ==
    LET RECURSIVE Value(_, _)
        Value(i, acc) == IF i > Len(str) THEN acc ELSE Value(i + 1, acc * 10 + str[i])
    IN  IF Len(str) = 0 \/ \E i \in 1..Len(str) : str[i] > 9
        THEN [id |-> {}, ok |-> FALSE]
        ELSE [id |-> {Value(1, 0)}, ok |-> TRUE]

\* The options of NewWallet by dynamic type: a client option function, an
\* *ethrpc.EthRPC, a string, a *big.Int (id {}: nil) and a *Wallet (id: its
\* ChainID).
FuncOption == [kind |-> "func", str |-> <<>>, id |-> {}]
ClientOption == [kind |-> "client", str |-> <<>>, id |-> {}]
StringOption(str) == [kind |-> "string", str |-> str, id |-> {}]
BigIntOption(id) == [kind |-> "bigint", str |-> <<>>, id |-> id]
WalletOption(id) == [kind |-> "wallet", str |-> <<>>, id |-> id]

\* One turn of the loop over the options: the type switch.
OptionsStep(st, opt) ==
    IF opt.kind = "func" THEN [st EXCEPT !.clientOptions = @ + 1]
    ELSE IF opt.kind = "client" THEN [st EXCEPT !.client = "given"]
    ELSE IF opt.kind = "string" THEN [st EXCEPT !.version = opt.str]
    ELSE IF opt.kind = "bigint"
    THEN [st EXCEPT !.chainID = opt.id, !.version = BigString(opt.id)]
    ELSE [st EXCEPT !.chainID = opt.id, !.client = "copied",
                    !.version = BigString(opt.id)]

\* The loop: client, version and chainID after all the options.
OptionsLoop(options) ==
    LET RECURSIVE Loop(_, _)
        Loop(i, st) == IF i > Len(options) THEN st
                       ELSE Loop(i + 1, OptionsStep(st, options[i]))
    IN  Loop(1, [clientOptions |-> 0, client |-> "nil", version |-> <<>>, chainID |-> {}])

NoWallet == [isNil |-> TRUE, Address |-> ZeroAddress, ChainID |-> {},
             Signer |-> NoSigner, Client |-> "nil"]

\* NewWallet(prvHex, rpc, options...) with the node answering NetVersion with
\* netVersion, or failing (netOk FALSE): the wallet, the error and the calls
\* of NetVersion made.
NewWallet(k, options, netOk, netVersion) ==
    LET st == OptionsLoop(options)
        made == NewSigner(k)
        client == IF st.client = "nil" THEN "new" ELSE st.client
        asks == st.version = <<>>
        version == IF asks THEN netVersion ELSE st.version
        parsed == SetString10(version)
        chainID == IF st.chainID = {} THEN parsed.id ELSE st.chainID
        failed == [wallet |-> NoWallet, err |-> TRUE, netCalls |-> 0]
    IN  IF made.err THEN failed
        ELSE IF asks /\ ~netOk THEN [failed EXCEPT !.netCalls = 1]
        ELSE IF st.chainID = {} /\ ~parsed.ok
        THEN [failed EXCEPT !.netCalls = IF asks THEN 1 ELSE 0]
        ELSE [wallet |-> [isNil |-> FALSE, Address |-> made.signer.Address,
                          ChainID |-> chainID, Signer |-> made.signer,
                          Client |-> client],
              err |-> FALSE,
              netCalls |-> IF asks THEN 1 ELSE 0]

\* ------------------------------------------------------ callers of NewWallet
ChainVals == 1..MaxChain
VersionStrings == {<<>>, <<1>>, <<1, 0>>, <<CharG>>}
OptionVals ==
    {FuncOption, ClientOption}
    \cup {StringOption(str) : str \in VersionStrings}
    \cup {BigIntOption(id) : id \in Opt(ChainVals)}
    \cup {WalletOption(id) : id \in Opt(ChainVals)}
OptionLists == UNION {[1..n -> OptionVals] : n \in 0..MaxOptions}

NoNew == [called |-> FALSE, key |-> 0, options |-> <<>>, out |-> NewWallet(0, <<>>, FALSE, <<>>)]
InitNew == nwRet = NoNew

\* A call of NewWallet by a caller that holds no wallet yet.  What the node
\* would answer is part of the call only when the node is asked.
CallNewWallet(k, options, netOk, netVersion) ==
    /\ nwRet = NoNew
    /\ nwRet' = [called |-> TRUE, key |-> k, options |-> options,
                 out |-> NewWallet(k, options, netOk, netVersion)]
    /\ UNCHANGED <<coreVars, sigVars, abiRet, sendVars, concVars>>

\* The caller drops the wallet.
DropWallet ==
    /\ nwRet # NoNew
    /\ nwRet' = NoNew
    /\ UNCHANGED <<coreVars, sigVars, abiRet, sendVars, concVars>>

NextNew ==
    \/ \E k \in 0..MaxKey, options \in OptionLists :
       \E netOk \in BOOLEAN, netVersion \in VersionStrings \ {<<>>} :
          CallNewWallet(k, options, netOk, netVersion)
    \/ DropWallet

\* ---------------------------------------------------------- specification
Next ==
    \/ NodePending
    \/ NodeMine
    \/ Forget
    \/ \E n \in Opt(NonceVals), g \in Opt(GasVals) :
         \E p, t, f \in Opt(PriceVals) : MakeOpts(n, g, p, t, f)
    \/ \E o \in RecIds \cup {"nil"} : Begin(o)
    \/ StepNonce
    \/ StepGasLimit
    \/ StepGasPrice
    \/ StepCaps
    \/ CallGetOldFee
    \/ CallGetNewFee

Init == InitCore /\ InitSig /\ InitAbi /\ InitSend /\ InitConc /\ InitNew

Spec == Init /\ [][Next]_vars

\* The signing side alone.
SpecSig == Init /\ [][NextSig]_vars
SpecAbi == Init /\ [][NextAbi]_vars
SpecSend == Init /\ [][NextSend]_vars
SpecConc == Init /\ [][NextConc]_vars
SpecNew == Init /\ [][NextNew]_vars

TypeOK ==
    /\ chain \in [latest : 0..MaxCount, pending : 0..MaxCount]
    /\ chain.latest <= chain.pending
    /\ \A r \in RecIds :
          /\ recs[r].Nonce \in Opt(0..MaxCount) /\ recs[r].GasLimit \in Opt(0..MaxGas)
          /\ {recs[r].GasPrice, recs[r].GasTipCap, recs[r].GasFeeCap} \subseteq BigRefs
    /\ big \in [Cells -> Nat]
    /\ held \in RecIds \cup {"nil"}
    /\ pc \in {"idle", "nonce", "gasLimit", "gasPrice", "caps", "done"}
    /\ opts \in RecIds \cup {"nil"}
    /\ ret \in [opts : RecIds \cup {"nil"}, err : BOOLEAN]
    \* a record whose gas price is unset does not point into the local gasPrice
    /\ \A r \in RecIds : recs[r].GasPrice = "nil" =>
          recs[r].GasTipCap # "lp" /\ recs[r].GasFeeCap # "lp"


\* ------------------------------------------------------------ properties
\* The caller's record as the caller sees it now.
Now(r) == View(big, recs[r])

\* The record InitTxOpts returned, as the caller sees it.
Returned == View(big, recs[ret.opts])

Succeeded == pc = "done" /\ ~ret.err
Failed == pc = "done" /\ ret.err

\* Positions of the log at which method m was queried.
Asked(m) == {i \in DOMAIN queries : queries[i].m = m}

\* The option field a query fills, and its place in the order of the queries.
FieldOf(m) == IF m = "eth_getTransactionCount" THEN "Nonce"
              ELSE IF m = "eth_estimateGas" THEN "GasLimit" ELSE "GasPrice"
Rank(m) == IF m = "eth_getTransactionCount" THEN 1
           ELSE IF m = "eth_estimateGas" THEN 2 ELSE 3

\* C1: a nonce, gas limit or gas price the caller set before InitTxOpts has
\* the same value in the caller's record at every point of the call and after
\* it, whether the queries of the call succeed or fail.
C1_SetFieldsKept ==
    entry.opts # "nil" =>
        \A f \in {"Nonce", "GasLimit", "GasPrice"} :
            entry.rec[f] # {} => Now(entry.opts)[f] = entry.rec[f]

C1_Witness ==
    /\ pc = "done" /\ entry.opts # "nil"
    /\ entry.rec.GasLimit # {} /\ entry.rec.Nonce = {} /\ entry.rec.GasPrice = {}
    /\ Len(queries) = 2 /\ queries[2].ok /\ {queries[2].val} # entry.rec.GasLimit

\* C2: a tip cap or fee cap the caller set before InitTxOpts has the same
\* value in the caller's record after the call, also when only one of the two
\* was set.
C2_CapsKept ==
    (pc = "done" /\ entry.opts # "nil") =>
        \A f \in {"GasTipCap", "GasFeeCap"} :
            entry.rec[f] # {} => Now(entry.opts)[f] = entry.rec[f]

\* C3: when tip cap and fee cap are both unset on entry and InitTxOpts
\* succeeds, both equal the resolved gas price: the caller's gas price if it
\* was set, otherwise the value the gas-price query returned.
C3_CapsAreGasPrice ==
    (Succeeded /\ entry.rec.GasTipCap = {} /\ entry.rec.GasFeeCap = {}) =>
        LET resolved == IF entry.rec.GasPrice # {} THEN entry.rec.GasPrice
                        ELSE {queries[i].val : i \in Asked("eth_gasPrice")}
        IN  /\ Cardinality(resolved) = 1
            /\ Returned.GasPrice = resolved
            /\ Returned.GasTipCap = resolved
            /\ Returned.GasFeeCap = resolved

C3_Witness ==
    /\ Succeeded /\ entry.opts # "nil"
    /\ entry.rec.GasTipCap = {} /\ entry.rec.GasFeeCap = {} /\ entry.rec.GasPrice = {}
    /\ Returned.GasTipCap = {MaxPrice} /\ Returned.GasFeeCap = {MaxPrice}

\* C4: whenever InitTxOpts returns without error, whatever it was given (nil,
\* an empty or a partially filled record), the returned record has nonce,
\* gas limit, gas price, tip cap and fee cap all set.
C4_AllSetOnSuccess ==
    Succeeded =>
        /\ ret.opts # "nil"
        /\ \A f \in DOMAIN NoView : Returned[f] # {}

C4_Witness ==
    /\ Succeeded /\ entry.opts # "nil"
    /\ entry.rec.GasTipCap # {} /\ entry.rec.GasFeeCap = {}
    /\ entry.rec.Nonce = {} /\ entry.rec.GasLimit # {}

\* C5: InitTxOpts queries only for missing fields: the transaction count only
\* if the nonce was unset on entry, the gas estimate only if the gas limit
\* was, the gas price only if the gas price was; each at most once per call;
\* and no query at all when every field was set.
C5_QueriesOnlyForMissing ==
    /\ \A i \in DOMAIN queries : entry.rec[FieldOf(queries[i].m)] = {}
    /\ \A i, j \in DOMAIN queries : queries[i].m = queries[j].m => i = j
    /\ (entry.opts # "nil" /\ \A f \in DOMAIN NoView : entry.rec[f] # {})
          => queries = <<>>

C5_Witness ==
    /\ Succeeded /\ entry.opts # "nil"
    /\ entry.rec.Nonce # {} /\ entry.rec.GasLimit = {} /\ entry.rec.GasPrice # {}
    /\ Len(queries) = 1 /\ queries[1].m = "eth_estimateGas"


\* C6: every transaction-count query of InitTxOpts is for the wallet's own
\* address with block tag "pending", and the step that fills an unset nonce
\* sets it to the node's pending count of that moment, never the "latest" one.
C6_NonceIsPendingCount ==
    /\ [](\A i \in Asked("eth_getTransactionCount") :
             queries[i].addr = Address /\ queries[i].tag = "pending")
    /\ [][(pc = "nonce" /\ pc' = "gasLimit" /\ recs[opts].Nonce = {})
             => recs'[opts].Nonce = {chain.pending}]_vars

C6_Witness ==
    /\ Succeeded /\ entry.rec.Nonce = {}
    /\ Asked("eth_getTransactionCount") = {1}
    /\ queries[1].val > chain.latest
    /\ Returned.Nonce = {queries[1].val}

\* C7: if a query of InitTxOpts fails, the call returns an error and no
\* options value, the failed query is the last one of the call (it is not
\* repeated and none follows it), and the queries come in the fixed order
\* nonce, gas limit, gas price.
C7_FailureStopsCall ==
    /\ \A i \in DOMAIN queries :
          ~queries[i].ok =>
              /\ i = Len(queries)
              /\ pc = "done" /\ ret = [opts |-> "nil", err |-> TRUE]
    /\ \A i, j \in DOMAIN queries :
          i < j => Rank(queries[i].m) < Rank(queries[j].m)
    /\ Failed => (queries # <<>> /\ ~queries[Len(queries)].ok)

C7_Witness ==
    /\ Failed /\ entry.rec.GasPrice = {}
    /\ Len(queries) = 2 /\ queries[1].ok
    /\ queries[2].m = "eth_estimateGas" /\ ~queries[2].ok

\* The record a caller can look at after the call: its own if it passed one,
\* otherwise the one returned.
Reachable == IF entry.opts # "nil" THEN entry.opts ELSE ret.opts

\* What the earlier successful queries of the call filled in is in record r.
FilledIn(r) ==
    \A i \in DOMAIN queries :
        queries[i].ok => Now(r)[FieldOf(queries[i].m)] = {queries[i].val}

\* C8 as stated: when InitTxOpts fails, the fields filled by the earlier
\* successful queries of the call are available to the caller, whether it
\* passed a partially filled record, an empty record or nil.
C8_PartialStateAvailable ==
    (Failed /\ \E i \in DOMAIN queries : queries[i].ok) =>
        (Reachable # "nil" /\ FilledIn(Reachable))

\* C8 amended: when InitTxOpts fails and the caller passed a record (empty or
\* partially filled), the fields filled by the earlier successful queries of
\* the call stay filled in that record; when the caller passed nil, the call
\* returns nil and the caller holds no record at all.
C8_PartialStateInCallerRecord ==
    Failed =>
        IF entry.opts # "nil"
        THEN held = entry.opts /\ FilledIn(entry.opts)
        ELSE ret.opts = "nil" /\ held = "nil"

C8_Witness ==
    /\ Failed /\ entry.opts # "nil" /\ entry.rec.Nonce = {}
    /\ Len(queries) = 2 /\ queries[1].ok /\ ~queries[2].ok
    /\ Now(entry.opts).Nonce = {queries[1].val}

\* The fee helper left the record and every big.Int as they were.
FeeCallFrame ==
    /\ Now(feeRet.rec) = feeRet.before
    /\ big = feeRet.heapBefore

\* C9: GetOldFee returns exactly gasPrice * gasLimit when gas price and gas
\* limit are both set, an error and no value when either is absent, and never
\* modifies a field of the record.
C9_GetOldFee ==
    feeRet.op = "GetOldFee" =>
        LET b == feeRet.before
        IN  /\ (b.GasPrice # {} /\ b.GasLimit # {}) =>
                  (~feeRet.err /\ feeRet.fee = {Deref(b.GasPrice) * Deref(b.GasLimit)})
            /\ (b.GasPrice = {} \/ b.GasLimit = {}) =>
                  (feeRet.err /\ feeRet.fee = {})
            /\ FeeCallFrame

C9_Witness ==
    /\ feeRet.op = "GetOldFee" /\ ~feeRet.err
    /\ feeRet.before.GasPrice = {MaxPrice} /\ feeRet.before.GasLimit = {MaxGas}
    /\ feeRet.fee = {MaxPrice * MaxGas}

C10_WitnessAbsent ==
    /\ feeRet.op = "GetNewFee" /\ feeRet.err
    /\ feeRet.before.GasPrice # {} /\ feeRet.before.GasLimit # {}
    /\ feeRet.before.GasTipCap = {}


\* ---------------------------------------------------- signing properties
\* The signature handed to the last Ecrecover call is one Ecrecover accepts.
Accepted == Len(recRet.given) = 65 /\ recRet.given[65] \in {0, 1, 27, 28}

\* C11: for every signature that is not exactly 65 bytes long, and every
\* 65-byte one whose last byte is none of 0, 1, 27, 28, Ecrecover returns an
\* error without calling the curve-recovery primitive, does not panic, and
\* returns no public key and no address.
C11_MalformedRejected ==
    (recRet.of # "none" /\ ~Accepted) =>
        /\ recRet.out.err
        /\ recRet.out.prim = <<>>
        /\ ~recRet.out.panicked
        /\ recRet.out.publicBy = <<>> /\ recRet.out.address = ZeroAddress

C11_Witness ==
    /\ recRet.of = "forged" /\ Len(recRet.given) = 64
    /\ recRet.given[32] = 1 /\ recRet.given[64] = 1
    /\ recRet.out.err /\ recRet.out.prim = <<>>

\* C12: for every accepted signature the primitive is called once, with the
\* hash given, r and s (bytes 0..63) unchanged, and a recovery byte that is 0
\* or 1: 27 is passed as 0, 28 as 1, 0 and 1 as they are.
C12_PrimitiveGetsRawV ==
    /\ (recRet.of # "none" /\ Accepted) => Len(recRet.out.prim) = 1
    /\ \A i \in DOMAIN recRet.out.prim :
          LET primCall == recRet.out.prim[i]
              v == recRet.given[65]
          IN  /\ Accepted
              /\ primCall.hash = recRet.hash
              /\ Len(primCall.sig) = 65
              /\ \A j \in 1..64 : primCall.sig[j] = recRet.given[j]
              /\ primCall.sig[65] \in {0, 1}
              /\ primCall.sig[65] = IF v = 27 THEN 0 ELSE IF v = 28 THEN 1 ELSE v

C12_Witness ==
    /\ recRet.of = "forged" /\ Accepted /\ recRet.given[65] = 27
    /\ recRet.out.prim[1].sig[65] = 0 /\ ~recRet.out.err

\* C13: a signature that SignMsg or SignTypedData returns without error is 65
\* bytes long, its r and s are the primitive's, and its last byte is the
\* primitive's recovery id (0 or 1) plus 27; next to an error no signature is
\* returned.
C13_SignatureShape ==
    sigRet.op # "none" =>
        IF sigRet.err THEN sigRet.sig = <<>>
        ELSE LET raw == CryptoSign(sigRet.hash, signer.key)
             IN  /\ Len(sigRet.sig) = 65
                 /\ sigRet.sig[65] \in {27, 28}
                 /\ sigRet.sig[65] = raw[65] + 27
                 /\ \A j \in 1..64 : sigRet.sig[j] = raw[j]

C13_Witness ==
    /\ sigRet.op = "SignTypedData" /\ ~sigRet.err
    /\ Len(sigRet.sig) = 65 /\ sigRet.sig[65] = 28

\* C14: Ecrecover on the hash a Signer signed (the personal-message hash for
\* SignMsg, EIP712Hash for SignTypedData) and the signature it returned gives
\* the public key of the Signer's key and the Signer's Address.
C14_SignRecoverRoundTrip ==
    recRet.of = "signed" =>
        /\ ~recRet.out.err
        /\ recRet.out.publicBy = FromECDSAPub(signer.key)
        /\ recRet.out.address = signer.Address

C14_Witness ==
    /\ recRet.of = "signed" /\ sigRet.op = "SignMsg" /\ sigRet.sig[65] = 28
    /\ ~recRet.out.err /\ recRet.out.address = signer.Address
    /\ signer.key = MaxKey


\* ---------------------------------------------------------------- C15
\* The methods of the ABI whose selector is the first 4 bytes of data.
MethodsMatching(data) ==
    {m \in ABIMethods : Len(data) >= 4 /\ \A i \in 1..4 : m.ID[i] = data[i]}

EventsMatching(topics) == {e \in ABIEvents : Len(topics) >= 1 /\ e.ID = topics[1]}
\* How many of the first i inputs are indexed (flag TRUE) or not (FALSE).
CountUpTo(inputs, i, flag) == Cardinality({j \in 1..i : inputs[j].Indexed = flag})
\* The map an event's log decodes to: the k-th indexed input from the k-th
\* entry of topics[1:], the k-th other input from the k-th word of data.
ExpectedValues(e, topics, data) ==
    {<<e.Inputs[i].Name,
       IF e.Inputs[i].Indexed
       THEN topics[1 + CountUpTo(e.Inputs, i, TRUE)]
       ELSE data[32 * CountUpTo(e.Inputs, i, FALSE)]>> : i \in 1..Len(e.Inputs)}

EmptyReturn == {BytesOutput(<<>>), StringOutput(<<0, CharX>>)}

\* C17: for empty return bytes DecodeFromMethod returns no error, leaves the
\* result list empty and makes no call to the ABI, whatever the method name
\* and whether results was nil, empty or pre-filled.
C17_EmptyReturnIsEmptyList ==
    (abiRet.op = "DecodeFromMethod" /\ abiRet.in[2] \in EmptyReturn) =>
        /\ ~abiRet.out.err
        /\ abiRet.out.list = <<>>
        /\ abiRet.out.abiCalls = <<>>

C17_Witness ==
    /\ abiRet.op = "DecodeFromMethod"
    /\ abiRet.in[1] = "nope"
    /\ abiRet.in[2] = StringOutput(<<0, CharX>>)
    /\ abiRet.in[3] = Results(<< <<9>> >>)
    /\ ~abiRet.out.err
    /\ abiRet.out.list = <<>>


\* ---------------------------------------------------------------- C18
\* C18: the steps of a send are tried in the order resolve, sign, serialize,
\* broadcast, each at most once and only after every earlier one succeeded;
\* sendRawTransaction is called at most once, as the fourth step, with the
\* serialized signed transaction; a call returns an error exactly when its
\* last step failed, and that step's error, with no broadcast when an earlier
\* step failed.
C18_SendOrder ==
    LET trail == send.trail
        n == Len(trail)
    IN  /\ [i \in 1..n |-> trail[i].step] = SubSeq(SendStages, 1, n)
        /\ \A i \in 1..(n - 1) : trail[i].ok
        /\ Len(send.broadcasts) <= 1
        /\ send.broadcasts # <<>> <=> n = 4
        /\ send.broadcasts # <<>> =>
               /\ send.tx # NoTx
               /\ send.broadcasts[1] = HexutilEncode(MarshalBinary(send.tx))
        /\ send.stage = "returned" =>
               /\ n >= 1
               /\ send.err <=> ~trail[n].ok
               /\ send.err => send.errAt = trail[n].step
               /\ (send.err /\ send.errAt # "broadcast") => send.broadcasts = <<>>
               /\ send.errAt = "resolve" => ret.err

C18_Witness ==
    /\ send.stage = "returned"
    /\ send.kind = "SendLegacyTx"
    /\ ~send.err
    /\ Len(send.trail) = 4
    /\ Len(send.broadcasts) = 1

\* ---------------------------------------------------------------- C19
\* The send that just returned and the one before it both succeeded, in
\* neither did the caller set the nonce, and the node counted the first
\* transaction as pending when the second send resolved its options.
BackToBack ==
    /\ send.stage = "returned"
    /\ ~send.err
    /\ last.has
    /\ ~last.nonceByCaller
    /\ ~send.nonceByCaller
    /\ send.pendingSeen > last.nonce

\* C19: of two back-to-back sends the second is signed with a nonce strictly
\* greater than the first's, whatever options argument the calls were given.
C19_SecondNonceGreater == BackToBack => send.tx.nonce > last.nonce

\* The same for a second call that is not handed the record the first one
\* worked on (nil, or a record built anew).
C19_SecondNonceGreaterUnlessReused ==
    (BackToBack /\ ~send.reuse) => send.tx.nonce > last.nonce

C19_Witness == BackToBack /\ ~send.reuse /\ send.tx.nonce > last.nonce
C19_WitnessReuse == BackToBack /\ send.reuse /\ send.tx.nonce = last.nonce


\* ---------------------------------------------------------------- C20
\* Call i has written to its record and has not resolved it fully.
Resolving(i) ==
    /\ call[i].pc # "idle"
    /\ call[i].pc # "done" \/ call[i].ret.err
    /\ \E f \in Fields : writer[call[i].opts][f] = i

\* C20: under every interleaving of two calls of InitTxOpts on one wallet the
\* wallet's Address, ChainID and Signer key stay as constructed, a record one
\* call has written to and not fully resolved is not the other call's record,
\* and neither call reads or overwrites a field the other has written and not
\* fully resolved.
C20_NoSharedResolverState ==
    /\ wallet = InitWallet
    /\ \A i \in Calls : Resolving(i) => call[Other(i)].opts # call[i].opts
    /\ observed = {}
    /\ overwritten = {}

\* The same for two calls that were not handed the same record.
C20_NoSharedStateOwnRecords ==
    /\ wallet = InitWallet
    /\ (\E i \in Calls : call[i].arg = "nil") =>
           /\ \A i \in Calls : Resolving(i) => call[Other(i)].opts # call[i].opts
           /\ observed = {}
           /\ overwritten = {}

C20_WitnessOwnRecords ==
    /\ \A i \in Calls : call[i].pc = "done" /\ ~call[i].ret.err
    /\ call[1].arg = "a"
    /\ call[2].arg = "nil"


\* ---------------------------------------------------------------- C21
\* The options that carry a chain id, and the last of them.
Carriers(options) == {i \in DOMAIN options : options[i].kind \in {"bigint", "wallet"}}
LastCarrier(options) == CHOOSE i \in Carriers(options) : \A j \in Carriers(options) : j <= i
\* The version strings given, the empty string counting as none.
Versions(options) ==
    {i \in DOMAIN options : options[i].kind = "string" /\ options[i].str # <<>>}

\* The string options, and the string of the last one: the version in effect
\* when no chain id is given.
Strings(options) == {i \in DOMAIN options : options[i].kind = "string"}
LastString(options) ==
    options[CHOOSE i \in Strings(options) : \A j \in Strings(options) : j <= i].str

\* What C21 says of a call, but for when NetVersion may be called.
ChainIDRules(options, out) ==
    /\ out.netCalls <= 1
    /\ (~out.err /\ Carriers(options) # {}
          /\ options[LastCarrier(options)].id # {}) =>
           out.wallet.ChainID = options[LastCarrier(options)].id
    /\ (Carriers(options) = {} /\ Strings(options) # {}
          /\ LastString(options) # <<>>
          /\ ~SetString10(LastString(options)).ok) =>
           out.err /\ out.wallet.isNil
    /\ out.err => out.wallet.isNil
    /\ ~out.err =>
           /\ ~out.wallet.isNil
           /\ out.wallet.ChainID # {}
           /\ out.wallet.Address = out.wallet.Signer.Address
           /\ out.wallet.Signer = NewSigner(nwRet.key).signer

\* C21: NewWallet calls NetVersion at most once, and only when the options
\* hold no chain id, no version string and no wallet; a chain id given (or
\* held by a wallet given) is the wallet's ChainID whatever the order of the
\* options and whatever version string is given too; a version that is no
\* base-10 integer gives an error and no wallet; a wallet built has the
\* Address of its Signer.
C21_ChainIDResolvedOnce ==
    nwRet.called =>
        /\ ChainIDRules(nwRet.options, nwRet.out)
        /\ nwRet.out.netCalls = 1 =>
               Carriers(nwRet.options) = {} /\ Versions(nwRet.options) = {}

\* The same, NetVersion being called exactly when the options leave the
\* version empty (key given good): nothing that sets it is given, or an empty
\* string is given after everything else that sets it.
C21_NetVersionWhenVersionEmpty ==
    nwRet.called =>
        /\ ChainIDRules(nwRet.options, nwRet.out)
        /\ (nwRet.out.netCalls = 1 /\ Carriers(nwRet.options) \cup Versions(nwRet.options) # {}) =>
               \E i \in DOMAIN nwRet.options :
                   /\ nwRet.options[i] = StringOption(<<>>)
                   /\ \A j \in Carriers(nwRet.options) \cup Versions(nwRet.options) : j < i

C21_WitnessChainIDGiven ==
    /\ nwRet.called
    /\ nwRet.options = <<BigIntOption({2}), StringOption(<<1>>)>>
    /\ ~nwRet.out.err
    /\ nwRet.out.wallet.ChainID = {2}
    /\ nwRet.out.netCalls = 0


C21_WitnessNetVersionAsked ==
    /\ nwRet.called
    /\ nwRet.options = <<BigIntOption({2}), StringOption(<<>>)>>
    /\ nwRet.out.netCalls = 1
    /\ nwRet.out.err


\* ---------------------------------------------------------------- C22
\* C22: after any call of Ecrecover, failed or not, the caller's signature
\* holds the bytes it held before, a recovery byte of 27 or 28 included, and
\* a second call on it returns what the first did.
C22_SignatureUntouched ==
    recRet.of # "none" =>
        /\ recRet.out.signature = recRet.given
        /\ recRet.of = "again" =>
               /\ recRet.out.err = recRet.first.err
               /\ recRet.out.publicBy = recRet.first.publicBy
               /\ recRet.out.address = recRet.first.address

C22_Witness ==
    /\ recRet.of = "again"
    /\ Len(recRet.given) = 65
    /\ recRet.given[65] \in {27, 28}
    /\ ~recRet.out.err
    /\ recRet.out.address = signer.Address

C22_WitnessFailing ==
    /\ recRet.of = "again"
    /\ Len(recRet.given) = 65
    /\ recRet.given[65] = 28
    /\ recRet.out.err

====
